---- MODULE Spec2Model ----
(***************************************************************************)
(* Model of the keymapper daemon's event loop, src/server/unix/main.cpp.   *)
(* The globals of the anonymous namespace are the variables, the local     *)
(* variables of main_loop and flush_send_buffer that live across a step    *)
(* are variables too, and pc is the position inside connection_loop /      *)
(* main_loop.  Stage, ClientPort, GrabbedDevices, VirtualDevice and        *)
(* ButtonDebouncer are collaborators whose code is elsewhere: they are     *)
(* modelled by their interface, with nondeterministic results.             *)
(*                                                                         *)
(* Spec follows the daemon for either setting of the debouncer.            *)
(* SpecAttributing follows it without a debouncer and records, with every  *)
(* event in the send buffer, the key event it stems from.                  *)
(***************************************************************************)
EXTENDS Integers, Sequences, FiniteSets, TLC

\* ------------------------------------------------------------------ bounds
MaxNow == 2          \* the clock is followed up to this instant
MaxInputs == 4       \* Configurations received and key events read in one
                     \* run, together
MaxSessions == 2     \* connections accepted in one run
MaxBuf == 3          \* g_send_buffer is followed up to this length
MaxOut == 1          \* longest output sequence one Stage.update returns
MaxMsgs == 2         \* most messages one read_messages call delivers

\* --------------------------------------------------------------- constants
no_device_index == 10000
NoTime == -1         \* an empty std::optional<Clock::time_point>
NoFd == -1           \* interrupt_fd when the client socket is not watched
ClientSocket == 3    \* g_client.socket(), any descriptor >= 0

PhysKeys == {"A"}          \* keys the devices report and the virtual device takes
VirtKeys == {"V"}          \* is_virtual_key
ActionKeys == {"Act0"}     \* is_action_key; Act0 is Key::first_action
DeviceIndices == {0}
OutputTimeouts == {1}      \* durations of timeouts in the output
InputTimeouts == {1}       \* durations of the input timeouts the Stage asks for

is_virtual_key(k) == k \in VirtKeys
is_action_key(k) == k \in ActionKeys
ActionIndex(k) == IF k = "Act0" THEN 0 ELSE 1

\* KeyEvent{ key, state, timeout }
KeyEvent(k, s) == [key |-> k, state |-> s, timeout |-> 0]
DefaultKeyEvent == KeyEvent("none", "Down")
\* operator== of KeyEvent compares key and state
KeyEventEq(a, b) == a.key = b.key /\ a.state = b.state

\* runtime/Timeout.h: the input-timeout event / marker and the output timeout
make_input_timeout_event(d) == [key |-> "timeout", state |-> "Up", timeout |-> d]
make_output_timeout_event(d) == [key |-> "timeout", state |-> "Down", timeout |-> d]
is_input_timeout_event(e) == e.key = "timeout" /\ e.state = "Up"
timeout_to_milliseconds(t) == t

Min(a, b) == IF a < b THEN a ELSE b
Last(s) == s[Len(s)]
Front(s) == SubSeq(s, 1, Len(s) - 1)

VARIABLES
  pc,                    \* position in connection_loop / main_loop
  exit_code,             \* value returned by connection_loop, -1 while running
  connected,             \* g_client holds an accepted connection
  g_stage,               \* std::unique_ptr<Stage>
  vdev,                  \* g_virtual_device
  grabbed,               \* g_grabbed_devices
  settings,              \* the Settings main() reads from the command line
  has_debouncer,         \* g_button_debouncer.has_value()
  g_send_buffer,
  g_flush_scheduled_at,
  g_input_timeout_start,
  g_input_timeout,
  g_virtual_keys_down,
  g_last_key_event,
  g_last_device_index,
  now,                   \* Clock::now()
  interrupt_fd,          \* local of main_loop
  flush_i,               \* local i of flush_send_buffer
  \* history variables, written and never read by the program
  attributing,           \* whether the run records, with each buffered event,
                         \* the key event it stems from
  n_sessions,            \* connections accepted so far
  n_inputs,              \* Configurations and key events so far;
                         \* a key event is known by its number in this count
  last_read,             \* the latest key event read from the devices
  timeout_cause,         \* the read that the pending input timeout stems from
  max_sole_sent,         \* latest key event whose own output was submitted
  sent_down,             \* keys whose latest event on the virtual device is a Down
  first_message,         \* first message of the connection, while the initial
                         \* configuration is awaited
  stage_calls,           \* Stage.update calls made by the last step
  vdev_out,              \* events submitted to the virtual device by the last step
  client_out,            \* TriggeredAction messages sent by the last step
  failure                \* the call that failed in the last step, or "none"

vars == <<pc, exit_code, connected, g_stage, vdev, grabbed, settings,
          has_debouncer, attributing,
          g_send_buffer, g_flush_scheduled_at, g_input_timeout_start,
          g_input_timeout, g_virtual_keys_down, g_last_key_event,
          g_last_device_index, now, interrupt_fd, flush_i,
          n_sessions, n_inputs, last_read, timeout_cause, max_sole_sent,
          sent_down, first_message,
          stage_calls, vdev_out, client_out, failure>>

\* ------------------------------------------------------------------- Stage
\* runtime/Stage.h is not part of the sources at hand.  The Stage is modelled
\* by its interface: update returns any well-formed output sequence, and the
\* Stage remembers which output keys it has pressed (is_output_down), whether
\* an exit mapping fired (should_exit), the configuration's
\* has_mouse_mappings, and, per virtual key, how many
\* more Downs than Ups it has been given.
NoStage ==
  [exists |-> FALSE, mouse |-> FALSE, filters |-> FALSE,
   output_down |-> {}, exit |-> FALSE, vnet |-> [v \in VirtKeys |-> 0]]

\* g_client.read_config(d): a Stage built from the received configuration
read_config(mouse) ==
  [exists |-> TRUE, mouse |-> mouse, filters |-> FALSE,
   output_down |-> {}, exit |-> FALSE, vnet |-> [v \in VirtKeys |-> 0]]

has_mouse_mappings(stage) == stage.mouse
is_output_down(stage) == stage.output_down # {}
should_exit(stage) == stage.exit
\* the active contexts only steer which output update chooses, and the model
\* leaves that choice open
set_active_contexts(stage, c) == stage

\* the events a Stage may put into an output sequence, given the keys it
\* holds down: a physical key alternates Down and Up
BodyEvents(down) ==
  {KeyEvent(k, "Down") : k \in (PhysKeys \ down) \cup VirtKeys \cup ActionKeys}
  \cup {KeyEvent(k, "Up") : k \in down \cup VirtKeys \cup ActionKeys}
  \cup {make_output_timeout_event(d) : d \in OutputTimeouts}

ApplyEvent(down, e) ==
  IF e.key \in PhysKeys
  THEN IF e.state = "Down" THEN down \cup {e.key} ELSE down \ {e.key}
  ELSE down

RECURSIVE ApplyOutput(_, _)
ApplyOutput(down, out) ==
  IF out = <<>> THEN down
  ELSE ApplyOutput(ApplyEvent(down, Head(out)), Tail(out))

RECURSIVE BodySeqs(_, _)
BodySeqs(down, n) ==
  IF n = 0 THEN {<<>>}
  ELSE {<<>>} \cup
       UNION {{<<e>> \o t : t \in BodySeqs(ApplyEvent(down, e), n - 1)} :
              e \in BodyEvents(down)}

\* the output sequences update may return: a balanced body, optionally ended
\* by the marker that asks the loop for an input timeout
StageOutputs(stage, room) ==
  LET n == Min(MaxOut, room)
  IN BodySeqs(stage.output_down, n)
     \cup {b \o <<make_input_timeout_event(d)>> :
             b \in BodySeqs(stage.output_down, Min(MaxOut - 1, room)),
             d \in InputTimeouts}

\* Stage::update(input, device_index) returning out; exit tells whether an
\* exit mapping fired
Stage_update(stage, ev, device_index, out, exit) ==
  [stage EXCEPT
     !.output_down = ApplyOutput(@, out),
     !.exit = @ \/ exit,
     !.vnet = IF is_virtual_key(ev.key)
              THEN [@ EXCEPT ![ev.key] = IF ev.state = "Down" THEN @ + 1 ELSE @ - 1]
              ELSE @]

\* -------------------------------------------------- the translation state
\* The globals translate_input and flush_send_buffer work on, as one record,
\* so that the recursion of translate_input can be written as an operator.
Globals ==
  [send_buffer |-> g_send_buffer,
   flush_scheduled_at |-> g_flush_scheduled_at,
   input_timeout_start |-> g_input_timeout_start,
   input_timeout |-> g_input_timeout,
   virtual_keys_down |-> g_virtual_keys_down,
   last_key_event |-> g_last_key_event,
   last_device_index |-> g_last_device_index,
   stage |-> g_stage,
   timeout_cause |-> timeout_cause,
   stage_calls |-> <<>>]

SetGlobals(S) ==
  /\ g_send_buffer' = S.send_buffer
  /\ g_flush_scheduled_at' = S.flush_scheduled_at
  /\ g_input_timeout_start' = S.input_timeout_start
  /\ g_input_timeout' = S.input_timeout
  /\ g_virtual_keys_down' = S.virtual_keys_down
  /\ g_last_key_event' = S.last_key_event
  /\ g_last_device_index' = S.last_device_index
  /\ g_stage' = S.stage
  /\ timeout_cause' = IF S.input_timeout_start = NoTime THEN 0
                      ELSE S.timeout_cause
  /\ stage_calls' = S.stage_calls

\* an element of g_send_buffer: the KeyEvent, with the key event it stems
\* from (cause: its number; sole: it is output of the update for that key
\* event itself, not of a timeout or of a virtual-key toggle) and whether an
\* earlier walk of flush_send_buffer has already acted on it
Cause(read, sole) ==
  IF attributing THEN [read |-> read, sole |-> sole]
  ELSE [read |-> 0, sole |-> FALSE]
Buffered(e, cause) ==
  [key |-> e.key, state |-> e.state, timeout |-> e.timeout,
   cause |-> cause.read, sole |-> cause.sole, walked |-> FALSE]

RECURSIVE BufferedSeq(_, _)
BufferedSeq(out, cause) ==
  IF out = <<>> THEN <<>>
  ELSE <<Buffered(Head(out), cause)>> \o BufferedSeq(Tail(out), cause)

\* send_key_sequence
send_key_sequence(S, sequence, cause) ==
  [S EXCEPT !.send_buffer = @ \o BufferedSeq(sequence, cause)]

\* schedule_flush(delay) at time t
schedule_flush(S, delay, t) ==
  IF S.flush_scheduled_at # NoTime THEN S
  ELSE [S EXCEPT !.flush_scheduled_at = t + delay]

\* what the Stage may answer to one update: an output and whether an exit
\* mapping fired (a key press that matches the exit sequence has no output)
StageAnswers(S, ev) ==
  {[out |-> o, exit |-> FALSE] :
     o \in StageOutputs(S.stage, MaxBuf - Len(S.send_buffer))}
  \cup (IF ev.key \in PhysKeys /\ ev.state = "Down"
        THEN {[out |-> <<>>, exit |-> TRUE]} ELSE {})

\* translate_input, lines 150-166, for one answer of the Stage
update_and_send(S, ev, device_index, cause, ans, t) ==
  LET marker == ans.out # <<>> /\ is_input_timeout_event(Last(ans.out))
      output == IF marker THEN Front(ans.out) ELSE ans.out
      S1 == [S EXCEPT
               !.last_key_event = ev,
               !.last_device_index = device_index,
               !.stage = Stage_update(@, ev, device_index, ans.out, ans.exit),
               !.input_timeout_start = IF marker THEN t ELSE @,
               !.input_timeout =
                  IF marker THEN timeout_to_milliseconds(Last(ans.out).timeout) ELSE @,
               !.timeout_cause = IF marker THEN cause.read ELSE @,
               !.stage_calls =
                  Append(@, [ev |-> ev, device_index |-> device_index,
                             marker |-> marker])]
  IN send_key_sequence(S1, output, cause)

\* the key-repeat test at the head of translate_input
IsRepeat(S, ev) ==
  /\ KeyEventEq(ev, S.last_key_event)
  /\ (S.flush_scheduled_at # NoTime \/ S.input_timeout_start # NoTime)

\* translate_input(input, device_index) at time t: the set of states it may
\* leave, one per answer of the Stage
RECURSIVE translate_input(_, _, _, _, _)
translate_input(S, ev, device_index, cause, t) ==
  IF IsRepeat(S, ev) THEN {S}
  ELSE LET cancelled ==
             IF S.input_timeout_start # NoTime
             THEN translate_input(
                    [S EXCEPT !.input_timeout_start = NoTime],
                    make_input_timeout_event(t - S.input_timeout_start),
                    device_index, Cause(cause.read, FALSE), t)
             ELSE {S}
       IN UNION {{update_and_send(S1, ev, device_index, cause, ans, t) :
                    ans \in StageAnswers(S1, ev)} : S1 \in cancelled}

\* toggle_virtual_key as it would be if the state passed to the Stage were
\* taken from the membership before the toggle
toggle_virtual_key_old_state(S, key, cause, t) ==
  IF key \notin S.virtual_keys_down
  THEN translate_input([S EXCEPT !.virtual_keys_down = @ \cup {key}],
                       KeyEvent(key, "Up"), no_device_index, cause, t)
  ELSE translate_input([S EXCEPT !.virtual_keys_down = @ \ {key}],
                       KeyEvent(key, "Down"), no_device_index, cause, t)

\* toggle_virtual_key
toggle_virtual_key(S, key, cause, t) ==
  IF key \notin S.virtual_keys_down
  THEN translate_input([S EXCEPT !.virtual_keys_down = @ \cup {key}],
                       KeyEvent(key, "Down"), no_device_index, cause, t)
  ELSE translate_input([S EXCEPT !.virtual_keys_down = @ \ {key}],
                       KeyEvent(key, "Up"), no_device_index, cause, t)

\* --------------------------------------------------------- client messages
Messages ==
  {[type |-> "configuration", mouse |-> m] : m \in BOOLEAN}
  \cup {[type |-> "active_contexts", mouse |-> FALSE]}

\* the message sequences one read_messages call may deliver: at most n
\* messages, at most c of them Configurations
RECURSIVE MessageSeqs(_, _)
MessageSeqs(n, c) ==
  IF n = 0 THEN {<<>>}
  ELSE {<<>>} \cup
       UNION {{<<m>> \o t :
                 t \in MessageSeqs(n - 1, IF m.type = "configuration" THEN c - 1 ELSE c)} :
              m \in {x \in Messages : x.type = "configuration" => c > 0}}

RECURSIVE CountConfigs(_)
CountConfigs(msgs) ==
  IF msgs = <<>> THEN 0
  ELSE (IF Head(msgs).type = "configuration" THEN 1 ELSE 0) + CountConfigs(Tail(msgs))

\* evaluate_device_filters
evaluate_device_filters(stage) == [stage EXCEPT !.filters = TRUE]

\* the handler read_client_messages passes to read_messages, for one message
handle_message(stage, m) ==
  IF m.type = "configuration"
  THEN LET prev_stage == stage
           new_stage == read_config(m.mouse)
       IN IF prev_stage.exists
             /\ has_mouse_mappings(prev_stage) # has_mouse_mappings(new_stage)
          THEN NoStage
          ELSE evaluate_device_filters(new_stage)
  ELSE IF stage.exists THEN set_active_contexts(stage, 1) ELSE stage

\* read_client_messages: the handler applied to the messages read, in order
RECURSIVE read_client_messages(_, _)
read_client_messages(stage, msgs) ==
  IF msgs = <<>> THEN stage
  ELSE read_client_messages(handle_message(stage, Head(msgs)), Tail(msgs))

\* ------------------------------------------------------------------- Init
NoRead == [kind |-> "none"]
NoVirtualDevice == [exists |-> FALSE]
NoGrab == [active |-> FALSE, pointer |-> FALSE]

Started ==
  /\ pc = "main"
  /\ exit_code = -1
  /\ connected = FALSE
  /\ g_stage = NoStage
  /\ vdev = NoVirtualDevice
  /\ grabbed = NoGrab
  /\ has_debouncer = FALSE
  /\ g_send_buffer = <<>>
  /\ g_flush_scheduled_at = NoTime
  /\ g_input_timeout_start = NoTime
  /\ g_input_timeout = 0
  /\ g_virtual_keys_down = {}
  /\ g_last_key_event = DefaultKeyEvent
  /\ g_last_device_index = 0
  /\ now = 0
  /\ interrupt_fd = NoFd
  /\ flush_i = 0
  /\ n_sessions = 0
  /\ n_inputs = 0
  /\ last_read = NoRead
  /\ timeout_cause = 0
  /\ max_sole_sent = 0
  /\ sent_down = {}
  /\ first_message = "none"
  /\ stage_calls = <<>>
  /\ vdev_out = <<>>
  /\ client_out = <<>>
  /\ failure = "none"

\* the process as main() finds it
Init ==
  /\ Started
  /\ settings \in {[debounce |-> b] : b \in BOOLEAN}
  /\ attributing = FALSE

\* the same without a debouncer, every buffered event traced to its key event
InitAttributing ==
  /\ Started
  /\ settings = [debounce |-> FALSE]
  /\ attributing = TRUE

\* what stays as it is once main() has read the command line
fixed == <<settings, has_debouncer, attributing>>

\* what a step that calls none of the collaborators leaves in the history
NoCalls ==
  /\ stage_calls' = <<>>
  /\ vdev_out' = <<>>
  /\ client_out' = <<>>

translation_vars ==
  <<g_send_buffer, g_flush_scheduled_at, g_input_timeout_start,
    g_input_timeout, g_virtual_keys_down, g_last_key_event,
    g_last_device_index, timeout_cause>>
loop_locals == <<interrupt_fd, flush_i>>
history_vars ==
  <<n_sessions, n_inputs, last_read, max_sole_sent, sent_down, first_message>>

\* ------------------------------------------------------- connection_loop
\* main(): command line, debouncer, g_client.initialize()
Main ==
  /\ pc = "main"
  /\ \E parsed \in BOOLEAN, ok \in BOOLEAN :
       IF ~parsed
       THEN /\ ok
            /\ pc' = "exited" /\ exit_code' = 1 /\ failure' = "commandline"
            /\ UNCHANGED has_debouncer
       ELSE /\ has_debouncer' = settings.debounce
            /\ IF ok
               THEN pc' = "accept" /\ exit_code' = exit_code /\ failure' = "none"
               ELSE pc' = "exited" /\ exit_code' = 1 /\ failure' = "initialize"
  /\ NoCalls
  /\ UNCHANGED <<connected, g_stage, vdev, grabbed, settings, attributing,
                 translation_vars, now, loop_locals, history_vars>>

\* g_client.accept(), lines 238-242
Accept ==
  /\ pc = "accept"
  /\ n_sessions < MaxSessions
  /\ \E ok \in BOOLEAN :
       IF ok
       THEN /\ connected' = TRUE /\ pc' = "initial_config"
            /\ n_sessions' = n_sessions + 1
            /\ failure' = "none"
       ELSE /\ pc' = "accept"
            /\ failure' = "accept"
            /\ UNCHANGED <<connected, n_sessions>>
  /\ first_message' = "none"
  /\ NoCalls
  /\ UNCHANGED <<exit_code, g_stage, vdev, grabbed, fixed,
                 translation_vars, now, loop_locals, n_inputs, last_read,
                 max_sole_sent, sent_down>>

FirstMessage(msgs) ==
  IF first_message = "none" /\ msgs # <<>> THEN Head(msgs).type
  ELSE first_message

\* read_initial_config, lines 61-69: one turn of its loop
ReadInitialConfig ==
  /\ pc = "initial_config"
  /\ IF g_stage.exists
     THEN /\ pc' = "create"
          /\ failure' = "none"
          /\ UNCHANGED <<g_stage, first_message, n_inputs>>
     ELSE \E msgs \in MessageSeqs(MaxMsgs, MaxInputs - n_inputs), ok \in BOOLEAN :
            /\ (ok => msgs # <<>>)
            /\ g_stage' = read_client_messages(g_stage, msgs)
            /\ n_inputs' = n_inputs + CountConfigs(msgs)
            /\ first_message' = FirstMessage(msgs)
            /\ IF ok THEN pc' = "initial_config" /\ failure' = "none"
               ELSE pc' = "teardown" /\ failure' = "client_read"
  /\ NoCalls
  /\ UNCHANGED <<exit_code, connected, vdev, grabbed, fixed,
                 translation_vars, now, loop_locals, n_sessions, last_read,
                 max_sole_sent, sent_down>>

\* lines 245-258: g_virtual_device.create, g_grabbed_devices.grab,
\* evaluate_device_filters
CreateAndGrab ==
  /\ pc = "create"
  /\ \E created \in BOOLEAN, grab_ok \in BOOLEAN :
       IF ~created
       THEN /\ grab_ok
            /\ pc' = "exited" /\ exit_code' = 1 /\ failure' = "create"
            /\ UNCHANGED <<vdev, grabbed, g_stage>>
       ELSE IF ~grab_ok
       THEN /\ pc' = "exited" /\ exit_code' = 1 /\ failure' = "grab"
            /\ vdev' = NoVirtualDevice
            /\ UNCHANGED <<grabbed, g_stage>>
       ELSE /\ pc' = "loop" /\ exit_code' = exit_code /\ failure' = "none"
            /\ vdev' = [exists |-> TRUE]
            /\ grabbed' = [active |-> TRUE, pointer |-> has_mouse_mappings(g_stage)]
            /\ g_stage' = evaluate_device_filters(g_stage)
  /\ first_message' = "none"
  /\ NoCalls
  /\ UNCHANGED <<connected, fixed, translation_vars, now, loop_locals,
                 n_sessions, n_inputs, last_read, max_sole_sent, sent_down>>

\* the end of connection_loop's body, lines 266-268
Teardown ==
  /\ pc = "teardown"
  /\ grabbed' = NoGrab
  /\ vdev' = NoVirtualDevice
  /\ connected' = FALSE
  /\ pc' = "accept"
  /\ failure' = "none"
  /\ first_message' = "none"
  /\ sent_down' = {}
  /\ NoCalls
  /\ UNCHANGED <<exit_code, g_stage, fixed, translation_vars, now,
                 loop_locals, n_sessions, n_inputs, last_read, max_sole_sent>>

\* -------------------------------------------------------------- main_loop
\* the wait timeout of lines 173-181: the nearer of the two deadlines from
\* now, or NoTimeout
NoTimeout == 1000
WaitTimeout ==
  LET flush == IF g_flush_scheduled_at # NoTime
               THEN g_flush_scheduled_at - now ELSE NoTimeout
      inp == IF g_input_timeout_start # NoTime
             THEN g_input_timeout_start + g_input_timeout - now ELSE NoTimeout
  IN Min(flush, inp)

\* line 184
InterruptFd == IF ~is_output_down(g_stage) THEN ClientSocket ELSE NoFd

\* how long read_input_event may take before it returns an event, and before
\* it returns without one (the timeout has passed, possibly a tick late, or
\* the interrupt descriptor became readable before that)
Due == IF WaitTimeout < 0 THEN 0 ELSE WaitTimeout
EventDelays == {d \in 0..(MaxNow - now) : d <= Due + 1}
IdleDelays ==
  {d \in 0..(MaxNow - now) :
     \/ WaitTimeout # NoTimeout /\ d >= Due /\ d <= Due + 1
     \/ InterruptFd # NoFd /\ d <= Due}

DeviceKeyEvents == {KeyEvent(k, st) : k \in PhysKeys, st \in {"Down", "Up"}}

\* read_input_event failed, lines 186-191
ReadInputFails ==
  /\ pc = "loop"
  /\ interrupt_fd' = InterruptFd
  /\ pc' = "teardown"
  /\ failure' = "read_input"
  /\ NoCalls
  /\ UNCHANGED <<exit_code, connected, g_stage, vdev, grabbed, fixed,
                 translation_vars, now, flush_i, history_vars>>

\* a key event was read and translated, lines 172-198
ReadKeyEvent ==
  /\ pc = "loop"
  /\ n_inputs < MaxInputs
  /\ \E d \in EventDelays, ev \in DeviceKeyEvents, device_index \in DeviceIndices :
       /\ now' = now + d
       /\ last_read' = [kind |-> "key", event |-> ev]
       /\ \E S \in translate_input(Globals, ev, device_index,
                                  Cause(n_inputs + 1, TRUE), now + d) :
            SetGlobals(S)
  /\ interrupt_fd' = InterruptFd
  /\ n_inputs' = n_inputs + 1
  /\ pc' = "timeout"
  /\ failure' = "none"
  /\ vdev_out' = <<>> /\ client_out' = <<>>
  /\ UNCHANGED <<exit_code, connected, vdev, grabbed, fixed, flush_i,
                 n_sessions, max_sole_sent, sent_down, first_message>>

\* lines 199-203 as they would be without the continue of line 202
ReadOtherEventNoContinue ==
  /\ pc = "loop"
  /\ \E d \in EventDelays, sent \in BOOLEAN :
       /\ now' = now + d
       /\ failure' = IF sent THEN "none" ELSE "send_event"
  /\ interrupt_fd' = InterruptFd
  /\ pc' = "timeout"
  /\ NoCalls
  /\ UNCHANGED <<exit_code, connected, g_stage, vdev, grabbed, fixed,
                 translation_vars, flush_i, history_vars>>

\* an event that is no key event was read and forwarded, lines 199-203; the
\* result of send_event is not looked at
ReadOtherEvent ==
  /\ pc = "loop"
  /\ \E d \in EventDelays, sent \in BOOLEAN :
       /\ now' = now + d
       /\ failure' = IF sent THEN "none" ELSE "send_event"
  /\ interrupt_fd' = InterruptFd
  /\ pc' = "loop"
  /\ NoCalls
  /\ UNCHANGED <<exit_code, connected, g_stage, vdev, grabbed, fixed,
                 translation_vars, flush_i, history_vars>>

\* read_input_event returned without an event (timeout or interrupt)
ReadNothing ==
  /\ pc = "loop"
  /\ \E d \in IdleDelays : now' = now + d
  /\ interrupt_fd' = InterruptFd
  /\ pc' = "timeout"
  /\ failure' = "none"
  /\ NoCalls
  /\ UNCHANGED <<exit_code, connected, g_stage, vdev, grabbed, fixed,
                 translation_vars, flush_i, history_vars>>

\* lines 206-211: the input timeout has run out
InputTimeoutExpired ==
  /\ g_input_timeout_start # NoTime
  /\ now >= g_input_timeout_start + g_input_timeout

CheckInputTimeout ==
  /\ pc = "timeout"
  /\ IF InputTimeoutExpired
     THEN \E S \in translate_input(
                     [Globals EXCEPT !.input_timeout_start = NoTime],
                     make_input_timeout_event(g_input_timeout),
                     g_last_device_index, Cause(timeout_cause, FALSE), now) :
            SetGlobals(S)
     ELSE /\ stage_calls' = <<>>
          /\ UNCHANGED <<g_stage, translation_vars>>
  /\ pc' = "flush_check"
  /\ failure' = "none"
  /\ vdev_out' = <<>> /\ client_out' = <<>>
  /\ UNCHANGED <<exit_code, connected, vdev, grabbed, fixed, now,
                 loop_locals, history_vars>>

\* the test of line 213 as it would be with >= for >
FlushDueAtDeadline == g_flush_scheduled_at = NoTime \/ now >= g_flush_scheduled_at

\* lines 213-214: is a flush due
FlushDue == g_flush_scheduled_at = NoTime \/ now > g_flush_scheduled_at

CheckFlush ==
  /\ pc = "flush_check"
  /\ IF FlushDue
     THEN /\ g_flush_scheduled_at' = NoTime
          /\ flush_i' = 0
          /\ pc' = "flush"
     ELSE /\ pc' = "client"
          /\ UNCHANGED <<g_flush_scheduled_at, flush_i>>
  /\ failure' = "none"
  /\ NoCalls
  /\ UNCHANGED <<exit_code, connected, g_stage, vdev, grabbed, fixed,
                 g_send_buffer, g_input_timeout_start, g_input_timeout,
                 g_virtual_keys_down, g_last_key_event, g_last_device_index,
                 timeout_cause, now, interrupt_fd, history_vars>>

\* ----------------------------------------------------- flush_send_buffer
DebounceDelays == {0, 1}    \* what ButtonDebouncer::on_key_down may return

FlushEvent == g_send_buffer[flush_i + 1]
Walked(S) == [S EXCEPT !.send_buffer[flush_i + 1].walked = TRUE]
Max(a, b) == IF a > b THEN a ELSE b

flush_frame ==
  <<exit_code, connected, vdev, grabbed, fixed, now, interrupt_fd,
    n_sessions, n_inputs, last_read, first_message>>

\* lines 96-101: an action key
FlushActionKey ==
  /\ pc = "flush" /\ flush_i < Len(g_send_buffer)
  /\ is_action_key(FlushEvent.key)
  /\ client_out' = IF FlushEvent.state = "Down"
                   THEN <<[index |-> ActionIndex(FlushEvent.key),
                           state |-> FlushEvent.state,
                           walked |-> FlushEvent.walked]>>
                   ELSE <<>>
  /\ g_send_buffer' = Walked(Globals).send_buffer
  /\ flush_i' = flush_i + 1
  /\ pc' = "flush"
  /\ failure' = "none"
  /\ stage_calls' = <<>> /\ vdev_out' = <<>>
  /\ UNCHANGED <<flush_frame, g_stage, g_flush_scheduled_at,
                 g_input_timeout_start, g_input_timeout, g_virtual_keys_down,
                 g_last_key_event, g_last_device_index, timeout_cause,
                 max_sole_sent, sent_down>>

\* lines 103-107: a virtual key
FlushVirtualKey ==
  /\ pc = "flush" /\ flush_i < Len(g_send_buffer)
  /\ is_virtual_key(FlushEvent.key)
  /\ IF FlushEvent.state = "Down"
     THEN \E S \in toggle_virtual_key(Walked(Globals), FlushEvent.key,
                                      Cause(FlushEvent.cause, FALSE), now) :
            SetGlobals(S)
     ELSE SetGlobals(Walked(Globals))
  /\ flush_i' = flush_i + 1
  /\ pc' = "flush"
  /\ failure' = "none"
  /\ vdev_out' = <<>> /\ client_out' = <<>>
  /\ UNCHANGED <<flush_frame, max_sole_sent, sent_down>>

\* lines 109-113: a timeout in the output
FlushTimeout ==
  /\ pc = "flush" /\ flush_i < Len(g_send_buffer)
  /\ FlushEvent.key = "timeout"
  /\ SetGlobals(schedule_flush(Walked(Globals),
                               timeout_to_milliseconds(FlushEvent.timeout), now))
  /\ flush_i' = flush_i + 1
  /\ pc' = "flush_end"
  /\ failure' = "none"
  /\ vdev_out' = <<>> /\ client_out' = <<>>
  /\ UNCHANGED <<flush_frame, max_sole_sent, sent_down>>

\* lines 115-124: a key for the virtual device
FlushKey ==
  /\ pc = "flush" /\ flush_i < Len(g_send_buffer)
  /\ FlushEvent.key \in PhysKeys
  /\ \E delay \in DebounceDelays, sent \in BOOLEAN :
       IF has_debouncer /\ FlushEvent.state = "Down" /\ delay > 0
       THEN /\ sent
            /\ SetGlobals(schedule_flush(Globals, delay, now))
            /\ pc' = "flush_end"
            /\ failure' = "none"
            /\ vdev_out' = <<>>
            /\ UNCHANGED <<flush_i, max_sole_sent, sent_down>>
       ELSE /\ delay = 0
            /\ IF sent
               THEN /\ SetGlobals(Walked(Globals))
                    /\ vdev_out' = <<FlushEvent>>
                    /\ sent_down' = ApplyEvent(sent_down, FlushEvent)
                    /\ max_sole_sent' = IF FlushEvent.sole
                                        THEN Max(max_sole_sent, FlushEvent.cause)
                                        ELSE max_sole_sent
                    /\ flush_i' = flush_i + 1
                    /\ pc' = "flush"
                    /\ failure' = "none"
               ELSE /\ SetGlobals(Globals)
                    /\ vdev_out' = <<>>
                    /\ pc' = "teardown"
                    /\ failure' = "send_key_event"
                    /\ UNCHANGED <<flush_i, max_sole_sent, sent_down>>
  /\ client_out' = <<>>
  /\ UNCHANGED flush_frame

\* lines 126-128: drop what the walk consumed, flush the virtual device
FlushEnd ==
  /\ \/ pc = "flush_end"
     \/ pc = "flush" /\ flush_i >= Len(g_send_buffer)
  /\ g_send_buffer' = SubSeq(g_send_buffer, flush_i + 1, Len(g_send_buffer))
  /\ \E flushed \in BOOLEAN :
       IF flushed THEN pc' = "client" /\ failure' = "none"
       ELSE pc' = "teardown" /\ failure' = "flush"
  /\ NoCalls
  /\ UNCHANGED <<flush_frame, g_stage, flush_i, g_flush_scheduled_at,
                 g_input_timeout_start, g_input_timeout, g_virtual_keys_down,
                 g_last_key_event, g_last_device_index, timeout_cause,
                 max_sole_sent, sent_down>>

\* lines 221-227: let the client update configuration and contexts
ReadClientMessages ==
  /\ pc = "client"
  /\ IF interrupt_fd >= 0
     THEN \E msgs \in MessageSeqs(MaxMsgs, MaxInputs - n_inputs), ok \in BOOLEAN :
            /\ g_stage' = read_client_messages(g_stage, msgs)
            /\ n_inputs' = n_inputs + CountConfigs(msgs)
            /\ failure' = IF ok THEN "none" ELSE "client_read"
            /\ pc' = IF ~ok \/ ~g_stage'.exists THEN "teardown" ELSE "exit_check"
     ELSE /\ pc' = "exit_check"

          /\ failure' = "none"
          /\ UNCHANGED <<g_stage, n_inputs>>
  /\ NoCalls
  /\ UNCHANGED <<exit_code, connected, vdev, grabbed, fixed,
                 translation_vars, now, loop_locals, n_sessions, last_read,
                 max_sole_sent, sent_down, first_message>>

\* lines 229-232
ExitCheck ==
  /\ pc = "exit_check"
  /\ IF should_exit(g_stage)
     THEN pc' = "exited" /\ exit_code' = 0
     ELSE pc' = "loop" /\ exit_code' = exit_code
  /\ failure' = "none"
  /\ NoCalls
  /\ UNCHANGED <<connected, g_stage, vdev, grabbed, fixed,
                 translation_vars, now, loop_locals, history_vars>>

Next ==
  \/ Main
  \/ Accept
  \/ ReadInitialConfig
  \/ CreateAndGrab
  \/ Teardown
  \/ ReadInputFails
  \/ ReadKeyEvent
  \/ ReadOtherEvent
  \/ ReadNothing
  \/ CheckInputTimeout
  \/ CheckFlush
  \/ FlushActionKey
  \/ FlushVirtualKey
  \/ FlushTimeout
  \/ FlushKey
  \/ FlushEnd
  \/ ReadClientMessages
  \/ ExitCheck

Spec == Init /\ [][Next]_vars
SpecAttributing == InitAttributing /\ [][Next]_vars

\* ------------------------------------------------------------ properties
\* the step of main_loop that read a key event from the devices
KeyEventRead == pc = "loop" /\ n_inputs' # n_inputs
\* the step of main_loop in which read_client_messages applied a Configuration
ConfigurationApplied == pc = "client" /\ n_inputs' # n_inputs

\* C1: while an output key is held down (Stage.is_output_down()), no
\* Configuration is applied: read_client_messages replaces or drops g_stage
\* only when no output key is down, also when the key went down in the loop
\* iteration in which the interrupt descriptor was chosen.
C1_NoConfigurationWhileOutputDown ==
  [][ConfigurationApplied => ~is_output_down(g_stage)]_vars

\* C2: a virtual key is in g_virtual_keys_down iff the current Stage has been
\* given exactly one more Down than Up for it by toggle_virtual_key, after
\* any sequence of flushes, reconfigurations and reconnections.
C2_LatchConsistency ==
  g_stage.exists =>
    \A v \in VirtKeys : v \in g_virtual_keys_down <=> g_stage.vnet[v] = 1

\* C3: for key events e1, e2 read in that order, every event that reaches
\* the virtual device because of e1 (output of a virtual-key toggle and
\* output held back behind a Timeout or a debounce delay included) is
\* submitted before any event caused solely by e2: nothing is submitted for
\* an earlier key event once own output of a later one has been submitted.
C3_OutputOrdering ==
  [][\A i \in DOMAIN vdev_out' : vdev_out'[i].cause >= max_sole_sent]_vars

\* C4: when the same (key, state) is read twice in a row and a flush or an
\* input timeout is pending as the second one arrives, the second one is
\* dropped: no Stage.update, and send buffer, timers and last_key_event stay
\* as they are, whatever happened between the two reads.
C4_RepeatSuppressed ==
  [][(/\ KeyEventRead
      /\ last_read.kind = "key"
      /\ KeyEventEq(last_read'.event, last_read.event)
      /\ (g_flush_scheduled_at # NoTime \/ g_input_timeout_start # NoTime))
     => (/\ stage_calls' = <<>>
         /\ UNCHANGED <<g_send_buffer, g_flush_scheduled_at,
                        g_input_timeout_start, g_input_timeout,
                        g_last_key_event>>)]_vars

\* C5: when an input timeout of duration T is pending and a new key event
\* (one that is not dropped as a repeat) arrives after t < T, Stage.update is
\* called with Timeout{t} and then with the new event, nothing in between,
\* both with the new event's device index.
C5_TimeoutCancellation ==
  [][(/\ KeyEventRead
      /\ g_input_timeout_start # NoTime
      /\ now' - g_input_timeout_start < g_input_timeout
      /\ ~KeyEventEq(last_read'.event, g_last_key_event))
     => (/\ Len(stage_calls') = 2
         /\ stage_calls'[1].ev =
              make_input_timeout_event(now' - g_input_timeout_start)
         /\ stage_calls'[2].ev = last_read'.event
         /\ stage_calls'[1].device_index = stage_calls'[2].device_index
         /\ stage_calls'[2].device_index = g_last_device_index')]_vars

\* C6: after translate_input has passed a key event e to the Stage,
\* g_input_timeout_start is set only if the update for e itself returned an
\* input-timeout marker; a timeout requested earlier, also one requested in
\* answer to the synthetic Timeout event, does not stay pending across e.
C6_TimeoutCancelledByInput ==
  (/\ pc = "timeout"
   /\ stage_calls # <<>>
   /\ g_input_timeout_start # NoTime)
  => Last(stage_calls).marker

\* C7: the session creates the virtual device and enters main_loop only if
\* the first message received on the connection was a Configuration; a Stage
\* left from an earlier connection does not stand in for it.
C7_FirstMessageIsConfiguration ==
  pc = "create" => first_message = "configuration"

\* C8: a failure of a device read, of send_key_event, send_event or flush,
\* or of a client read ends the connection and not the process: main_loop
\* returns and the connection is torn down.
ConnectionFailures ==
  {"read_input", "send_key_event", "send_event", "flush", "client_read"}
C8_FailureEndsConnection ==
  failure \in ConnectionFailures => pc = "teardown" /\ exit_code = -1

\* C9: flush_send_buffer submits only physical keys to the virtual device,
\* and an action key event of the send buffer sends exactly one
\* TriggeredAction for a Down and nothing for an Up, over any sequence of
\* flushes: a TriggeredAction is never sent for an event that an earlier
\* walk has already acted on.
C9_ActionDispatchedOnce ==
  /\ \A i \in DOMAIN vdev_out : vdev_out[i].key \in PhysKeys
  /\ \A i \in DOMAIN client_out :
       client_out[i].state = "Down" /\ ~client_out[i].walked

\* C10: on the virtual device the events of a physical key alternate Down
\* and Up: a Down is submitted only for a key that is not down on the
\* device, an Up only for one that is.
C10_DownUpAlternate ==
  [][\A i \in DOMAIN vdev_out' :
       (vdev_out'[i].state = "Down") <=> (vdev_out'[i].key \notin sent_down)]_vars

\* C11: once an exit mapping has fired the process exits with code 0: the
\* Stage that reports should_exit() stays in place until main_loop has
\* returned graceful-exit; the process exits with 0 only after an exit
\* mapping fired, and with 1 only on a startup failure (a refused command
\* line counted with them).
StartupFailures == {"commandline", "initialize", "create", "grab"}
C11_ExitMappingExits ==
  [][/\ (should_exit(g_stage) => should_exit(g_stage'))
     /\ (exit_code' = 0 => should_exit(g_stage))
     /\ (exit_code' = 1 => failure' \in StartupFailures)]_vars

\* the step of flush_send_buffer that has a virtual key before it
VirtualKeyReached ==
  /\ pc = "flush" /\ flush_i < Len(g_send_buffer)
  /\ is_virtual_key(FlushEvent.key)

\* C12: when flush_send_buffer reaches a virtual-key Down at index i, the key
\* is toggled in g_virtual_keys_down and the Stage is updated with the new
\* state (Down if newly latched, Up if released) and no_device_index, before
\* the walk goes on to index i + 1 and with nothing submitted to the virtual
\* device in between; a virtual-key Up causes no toggle and no Stage update;
\* what is submitted is always the event the walk stands at.
C12_ToggleBeforeDrain ==
  [][/\ VirtualKeyReached =>
          IF FlushEvent.state = "Down"
          THEN /\ g_virtual_keys_down' =
                    (IF FlushEvent.key \in g_virtual_keys_down
                     THEN g_virtual_keys_down \ {FlushEvent.key}
                     ELSE g_virtual_keys_down \cup {FlushEvent.key})
               /\ stage_calls' # <<>>
               /\ Last(stage_calls').ev =
                    KeyEvent(FlushEvent.key,
                             IF FlushEvent.key \in g_virtual_keys_down'
                             THEN "Down" ELSE "Up")
               /\ Last(stage_calls').device_index = no_device_index
               /\ vdev_out' = <<>>
               /\ flush_i' = flush_i + 1
          ELSE /\ stage_calls' = <<>>
               /\ g_virtual_keys_down' = g_virtual_keys_down
               /\ vdev_out' = <<>>
               /\ flush_i' = flush_i + 1
     /\ vdev_out' # <<>> =>
          /\ pc = "flush" /\ flush_i < Len(g_send_buffer)
          /\ vdev_out'[1].key = FlushEvent.key
          /\ vdev_out'[1].state = FlushEvent.state
          /\ flush_i' = flush_i + 1]_vars

\* a flush has released a latched virtual key and told the Stage
C12_Witness ==
  /\ pc = "flush" /\ stage_calls # <<>>
  /\ Last(stage_calls).ev = KeyEvent("V", "Up")
  /\ Last(stage_calls).device_index = no_device_index
  /\ "V" \notin g_virtual_keys_down

\* C13: whenever the loop finds the pending input timeout run out (lines
\* 206-207), g_input_timeout_start is cleared and in that step Stage.update
\* is called with Timeout{g_input_timeout} and g_last_device_index: a timeout
\* that ran out is never lost; it is pending afterwards only if the Stage
\* asked for one anew.
C13_ExpiredTimeoutDelivered ==
  [][(pc = "timeout" /\ InputTimeoutExpired) =>
       /\ stage_calls' # <<>>
       /\ stage_calls'[1].ev = make_input_timeout_event(g_input_timeout)
       /\ stage_calls'[1].device_index = g_last_device_index
       /\ (g_input_timeout_start' # NoTime => Last(stage_calls').marker)]_vars

\* C14: a Configuration that arrives while a Stage exists and whose
\* has_mouse_mappings() differs leaves no Stage, and main_loop ends the
\* session so that the devices are grabbed anew before further input is
\* translated; one whose has_mouse_mappings() is equal replaces the Stage in
\* place, with the device filters evaluated, and the session goes on.  So
\* after a read_client_messages that succeeded main_loop goes on only with
\* a Stage of the same mouse usage as before, and ends the session without
\* a Stage otherwise.
C14_MouseChangeEndsSession ==
  [][(ConfigurationApplied /\ failure' = "none") =>
       IF g_stage'.exists
       THEN /\ has_mouse_mappings(g_stage') = has_mouse_mappings(g_stage)
            /\ g_stage'.filters
            /\ pc' = "exit_check"
       ELSE pc' = "teardown"]_vars

\* C15: g_flush_scheduled_at, once set, is never moved or cancelled: it
\* keeps its value until the flush step of main_loop clears it, which happens
\* only once now > g_flush_scheduled_at; while it is set no event of the send
\* buffer is submitted to the virtual device.
C15_FlushDeadlineKept ==
  [][/\ g_flush_scheduled_at # NoTime =>
          \/ g_flush_scheduled_at' = g_flush_scheduled_at
          \/ /\ pc = "flush_check" /\ now > g_flush_scheduled_at
             /\ g_flush_scheduled_at' = NoTime
     /\ vdev_out' # <<>> => g_flush_scheduled_at = NoTime]_vars

\* a deadline has been kept while output was waiting in the send buffer and
\* is about to be consumed
C15_Witness ==
  /\ pc = "flush_check"
  /\ g_flush_scheduled_at # NoTime /\ now > g_flush_scheduled_at
  /\ Len(g_send_buffer) >= 2

\* C16: keys are submitted to the virtual device in the order of the send
\* buffer and each exactly once: what is submitted is the event the walk
\* stands at, and no walk has acted on it before; when the walk stops at a
\* Down for a debounce delay that event stays in the buffer, unconsumed, with
\* a deadline scheduled and nothing behind it submitted; what a walk has
\* submitted is removed from the buffer.
C16_SubmittedOnceInOrder ==
  [][/\ vdev_out' # <<>> =>
          /\ pc = "flush" /\ flush_i < Len(g_send_buffer)
          /\ vdev_out'[1].key = FlushEvent.key
          /\ vdev_out'[1].state = FlushEvent.state
          /\ ~FlushEvent.walked
          /\ flush_i' = flush_i + 1
     /\ (pc = "flush" /\ pc' = "flush_end" /\ FlushEvent.key \in PhysKeys) =>
          /\ FlushEvent.state = "Down"
          /\ flush_i' = flush_i
          /\ g_send_buffer' = g_send_buffer
          /\ g_flush_scheduled_at' # NoTime
          /\ vdev_out' = <<>>
     /\ (pc \in {"flush", "flush_end"} /\ pc' = "client") =>
          /\ Len(g_send_buffer') = Len(g_send_buffer) - flush_i
          /\ \A i \in DOMAIN g_send_buffer' : ~g_send_buffer'[i].walked]_vars

\* the step of main_loop that read an event which is no key event: the only
\* one that leads from the head of the loop back to it, and the only one in
\* which send_event can fail
OtherEventRead == pc = "loop" /\ (pc' = "loop" \/ failure' = "send_event")

\* C17: an event that does not convert to a KeyEvent is forwarded and the
\* loop starts over: in that iteration Stage.update is not called, nothing is
\* submitted from the send buffer, g_send_buffer, g_flush_scheduled_at,
\* g_input_timeout_start, g_last_key_event, g_last_device_index and
\* g_virtual_keys_down are unchanged, and there is no timeout delivery, no
\* flush, no read of client messages and no exit check.
C17_OtherEventForwardedOnly ==
  [][OtherEventRead =>
       /\ pc' = "loop"
       /\ stage_calls' = <<>> /\ vdev_out' = <<>> /\ client_out' = <<>>
       /\ UNCHANGED <<g_stage, g_send_buffer, g_flush_scheduled_at,
                      g_input_timeout_start, g_input_timeout,
                      g_last_key_event, g_last_device_index,
                      g_virtual_keys_down, exit_code, connected>>]_vars

\* an event that is no key event has been forwarded although the input
\* timeout had run out and output was waiting in the send buffer
C17_Witness ==
  /\ pc = "loop" /\ failure = "send_event"
  /\ InputTimeoutExpired
  /\ g_send_buffer # <<>>

\* C18: at the start of every iteration of main_loop a send buffer that is
\* not empty has a flush scheduled: a flush that returned successfully has
\* drained the buffer or has stopped with a deadline set, so that buffered
\* output never waits for the next input event.
C18_BufferedOutputHasDeadline ==
  (pc = "loop" /\ g_send_buffer # <<>>) => g_flush_scheduled_at # NoTime

\* C19: no state of the event loop passes from one session to the next:
\* whenever main_loop is entered for a newly accepted connection the send
\* buffer is empty, g_flush_scheduled_at and g_input_timeout_start are unset
\* and g_virtual_keys_down is empty.
C19_NoStateAcrossSessions ==
  [][(pc = "create" /\ pc' = "loop") =>
       /\ g_send_buffer' = <<>>
       /\ g_flush_scheduled_at' = NoTime
       /\ g_input_timeout_start' = NoTime
       /\ g_virtual_keys_down' = {}]_vars

\* C20: at the start of every iteration of main_loop a Stage exists, and the
\* devices are grabbed with pointer devices included exactly if the Stage has
\* mouse mappings, whatever messages the client has sent, several in one
\* read included.
C20_GrabMatchesStage ==
  pc = "loop" =>
    /\ g_stage.exists
    /\ grabbed.active
    /\ grabbed.pointer = has_mouse_mappings(g_stage)

====
